---- MODULE Spec2Model ----
(***************************************************************************)
(* A model of coco_agent/services/git.py: the history walker               *)
(* (repo_commits_iter), the change classifier (_diff_size, _diff_type),    *)
(* the diff assembler (load_commit_diffs), the extractor generator         *)
(* (GitRepoExtractor.__call__) and the pipeline (ingest_and_store_repo).   *)
(*                                                                         *)
(* The version-control capability (gitpython) is the environment: a        *)
(* repository is a chain of commits 1..MaxCommits (commit 1 has no parent, *)
(* commit i > 1 has parent i-1), each with an authored date and a tree     *)
(* holding at most one blob per path; a blob is identified by its size     *)
(* (0 for an empty file).                                                  *)
(* A revision name resolves to a commit of the chain or is unknown.        *)
(* Optional values (Python None) are sets with at most one element.        *)
(***************************************************************************)
EXTENDS Integers, Sequences, FiniteSets, TLC

\* ------------------------------------------------------------- bounds
MaxCommits == 2
MaxDate == 2
MaxSize == 2
MaxStream == 3

\* ------------------------------------------------------------- constants
GIT_SOURCE_TYPE == "git"
GIT_COMMIT_TYPE == "git_commits"
GIT_COMMIT_DIFF_TYPE == "git_commit_diffs"
GIT_REPO_TYPE == "git_repos"

None == {}
Some(x) == {x}
Get(opt) == CHOOSE x \in opt : TRUE

Commits == 1..MaxCommits
Dates == 1..MaxDate
Blobs == 0..MaxSize
Paths == <<"f.txt">>
PathSet == {Paths[i] : i \in DOMAIN Paths}
Trees == [PathSet -> {None} \cup {Some(b) : b \in Blobs}]
EmptyTree == [p \in PathSet |-> None]

\* Remote URLs as token sequences: "h/r1.git", "h/r1", "h.git/r2.git".
OriginUrls ==
    { <<"h", "/", "r1", ".git">>,
      <<"h", "/", "r1">>,
      <<"h", ".git", "/", "r2", ".git">> }

VARIABLES
    args,        \* the arguments of the run (and whether the extractor is a stub)
    git,         \* the repository as the version-control capability sees it
    pc,          \* position of ingest_and_store_repo
    error,       \* the exception that ended the run, "" if none
    gen,         \* state of the generator GitRepoExtractor.__call__
    tmpdir,      \* the temporary directory of __call__
    ctx,         \* locals of __call__: repo_name, repo_tm_id
    walk,        \* the active frame of repo_commits_iter
    tried,       \* revisions handed to repo.iter_commits, in order
    walked,      \* commits yielded by repo_commits_iter, in order
    failures,    \* transport / sink failures the environment raised
    stream,      \* record types the pipeline's loop has received, in order
    commits,     \* list `commits` of ingest_and_store_repo
    repos,       \* list `repos` of ingest_and_store_repo
    commit_diffs,\* list `commit_diffs` of ingest_and_store_repo
    sinkCalls,   \* completed store_fn calls, in order
    diff,        \* classifier input (a gitpython Diff)
    classified   \* classifier outcome for `diff`

vars == << args, git, pc, error, gen, tmpdir, ctx, walk, tried, walked, failures, stream,
           commits, repos, commit_diffs, sinkCalls, diff, classified >>

\* ------------------------------------------------------------- helpers
Last(s) == s[Len(s)]
\* Python truthiness of an optional string / optional token sequence.
TruthyStr(opt) == opt # None /\ Get(opt) # ""
TruthySeq(opt) == opt # None /\ Get(opt) # <<>>
SetMin(S) == CHOOSE x \in S : \A y \in S : x <= y
SetMax(S) == CHOOSE x \in S : \A y \in S : x >= y
Ret(v) == [raised |-> FALSE, value |-> v]
Raise(e) == [raised |-> TRUE, exc |-> e]
Count(s, x) == Cardinality({i \in DOMAIN s : s[i] = x})
IsPermutation(s, t) ==
    /\ Len(s) = Len(t)
    /\ \A i \in DOMAIN s : Count(s, s[i]) = Count(t, s[i])

RECURSIVE Concat(_)
Concat(ss) == IF ss = <<>> THEN <<>> ELSE Head(ss) \o Concat(Tail(ss))

\* ------------------------------------------------------------- identity service
tm_id_sensor(customer_id, source_type, source_id) ==
    <<"sensor", customer_id, source_type, source_id>>
tm_id_git_repo(customer_id, source_id, repo_name) ==
    <<"git_repo", customer_id, source_id, repo_name>>
tm_id_git_commit(hexsha) == <<"git_commit", hexsha>>
tm_id_git_commit_diff(hexsha, objpath) == <<"git_commit_diff", hexsha, objpath>>
tm_id_git_path(repo_tm_id, path) == <<"git_path", repo_tm_id, path>>

\* ------------------------------------------------------------- string operations
\* str.endswith(tok), str.split(tok)[0] and str.split(tok)[-1] on token sequences.
EndsWith(s, tok) == s # <<>> /\ Last(s) = tok
SplitFirst(s, tok) ==
    LET at == {i \in DOMAIN s : s[i] = tok}
    IN  IF at = {} THEN s ELSE SubSeq(s, 1, SetMin(at) - 1)
SplitLast(s, tok) ==
    LET at == {i \in DOMAIN s : s[i] = tok}
    IN  IF at = {} THEN s ELSE SubSeq(s, SetMax(at) + 1, Len(s))

\* ------------------------------------------------------------- the git capability
\* repo.iter_commits(rev, reverse=...): git rev-list lists the commits reachable
\* from the tip newest first; reverse=True lists them oldest first.
rev_list(tip, reverse) ==
    IF reverse THEN [i \in 1..tip |-> i] ELSE [i \in 1..tip |-> tip + 1 - i]
commit_parents(c) == IF c = 1 THEN <<>> ELSE <<c - 1>>

\* One gitpython Diff of path p between trees a and b (raw format, no renames).
DiffOf(p, a, b) ==
    [ a_path |-> p, b_path |-> p, a_blob |-> a[p], b_blob |-> b[p],
      new_file |-> a[p] = None, deleted_file |-> b[p] = None, renamed |-> FALSE ]
TreeDiff(a, b) ==
    SelectSeq([i \in DOMAIN Paths |-> DiffOf(Paths[i], a, b)],
              LAMBDA d : d.a_blob # d.b_blob)
\* commit.parents[0].diff(commit): the parent's tree against the commit's tree.
diff_against_parent(g, c) == TreeDiff(g.tree[c - 1], g.tree[c])
\* commit.diff() with no argument: gitpython's default `other` is the index, so
\* this is `git diff --cached <commit>`: the commit's tree against the index.
diff_against_index(g, c) == TreeDiff(g.tree[c], g.index)
\* commit.stats.files: the paths git --numstat lists for the commit (against its
\* first parent, or with --root against the empty tree for a parentless commit).
stats_files(g, c) ==
    LET base == IF commit_parents(c) = <<>> THEN EmptyTree ELSE g.tree[c - 1]
    IN  SelectSeq(Paths, LAMBDA p : base[p] # g.tree[c][p])

\* ------------------------------------------------------------- git.py, lines 23-101
\* get_path: the rename notation "{a => b}" never occurs in the modelled stats
\* keys, so the regular expression does not match and the path is returned.
get_path(objpath) == objpath

diff_typeDeletedFirst(d) ==
    IF d.deleted_file THEN "D"
    ELSE IF d.new_file THEN "A"
    ELSE IF d.renamed THEN "R"
    ELSE "M"

diff_type(d) ==
    IF d.renamed THEN "R"
    ELSE IF d.deleted_file THEN "D"
    ELSE IF d.new_file THEN "A"
    ELSE "M"

\* blob.size; AttributeError when the blob is None.
diff_size(d) ==
    IF d.b_blob = None /\ d.deleted_file
    THEN IF d.a_blob = None THEN Raise("AttributeError") ELSE Ret(Get(d.a_blob) * (-1))
    ELSE IF d.a_blob = None /\ d.new_file
    THEN IF d.b_blob = None THEN Raise("AttributeError") ELSE Ret(Get(d.b_blob))
    ELSE IF d.a_blob = None \/ d.b_blob = None THEN Raise("AttributeError")
    ELSE Ret(Get(d.a_blob) - Get(d.b_blob))

get_repo_name_from_remote(g) ==
    IF g.origin = None \/ ~EndsWith(Get(g.origin), ".git")
    THEN None
    ELSE Some(SplitLast(SplitFirst(Get(g.origin), ".git"), "/"))

get_repo_url_from_remote(g) == g.origin

\* ------------------------------------------------------------- GitRepoExtractor
\* The extractor ingest_and_store_repo constructs (lines 260-267, 117-137).
Extractor(a) ==
    [ customer_id |-> a.customer_id,
      source_id |-> a.source_id,
      repo_tm_id |-> None,
      forced_repo_name |-> a.forced_repo_name,
      autogenerate_repo_id |-> TRUE,
      repo_link_url |-> None,
      use_repo_link_from_remote |-> TRUE,
      sensor_id |-> tm_id_sensor(a.customer_id, GIT_SOURCE_TYPE, a.source_id) ]

\* __init__ raises ValueError on a missing identity or a missing repo id policy.
init_raises(a) ==
    \/ a.customer_id = "" \/ a.source_id = ""
    \/ (Extractor(a).repo_tm_id = None /\ ~Extractor(a).autogenerate_repo_id)

generate_repo_id_from_remote_name(self, g) ==
    tm_id_git_repo(self.customer_id, self.source_id, get_repo_name_from_remote(g))

\* dict.get on {diff.a_path: diff for diff in diffs}: the last entry of a path wins.
diffs_get(diffs, path) ==
    LET at == {i \in DOMAIN diffs : diffs[i].a_path = path}
    IN  IF at = {} THEN None ELSE Some(diffs[SetMax(at)])

diff_record(self, repo_tm_id, c, objpath, d) ==
    [ tm_id |-> tm_id_git_commit_diff(c, objpath),
      sensor_id |-> self.sensor_id,
      repo_id |-> repo_tm_id,
      a_path |-> d.a_path,
      b_path |-> d.b_path,
      a_object_id |-> tm_id_git_path(repo_tm_id, d.a_path),
      b_object_id |-> tm_id_git_path(repo_tm_id, d.b_path),
      commit_id |-> tm_id_git_commit(c),
      size_delta |-> diff_size(d).value,
      type |-> diff_type(d) ]

\* load_commit_diffs, collected by list(diffs): Ret(records) or Raise(exception).
load_commit_diffs(self, g, repo_tm_id, c) ==
    LET diffs == IF commit_parents(c) # <<>>
                 THEN diff_against_parent(g, c)
                 ELSE diff_against_index(g, c)
        found == SelectSeq(stats_files(g, c),
                           LAMBDA objpath : diffs_get(diffs, get_path(objpath)) # None)
        at(i) == Get(diffs_get(diffs, get_path(found[i])))
    IN  IF \E i \in DOMAIN found : diff_size(at(i)).raised
        THEN Raise("AttributeError")
        ELSE Ret([i \in DOMAIN found |-> diff_record(self, repo_tm_id, c, found[i], at(i))])

\* The commit record extract_commits_and_history yields for commit c.
commit_record(self, g, repo_tm_id, c, diffs) ==
    [ tm_id |-> tm_id_git_commit(c),
      sensor_id |-> self.sensor_id,
      repo_id |-> repo_tm_id,
      diffs |-> diffs,
      parents |-> [i \in DOMAIN commit_parents(c) |-> tm_id_git_commit(commit_parents(c)[i])],
      hexsha |-> c,
      authored_date |-> g.authored_date[c] ]

repo_record(self, g, repo_tm_id, repo_name) ==
    [ tm_id |-> repo_tm_id,
      sensor_id |-> self.sensor_id,
      name |-> repo_name,
      url |-> IF ~TruthySeq(self.repo_link_url) /\ self.use_repo_link_from_remote
              THEN get_repo_url_from_remote(g)
              ELSE self.repo_link_url ]

\* ------------------------------------------------------------- repo_commits_iter
IdleFrame == [rev |-> "", fallback_rev |-> None, reverse |-> TRUE, pending |-> <<>>, state |-> "idle"]

\* A call repo_commits_iter(repo, rev, fallback_rev, reverse) at its iter_commits.
Frame(g, rev, fallback_rev, reverse) ==
    [ rev |-> rev, fallback_rev |-> fallback_rev, reverse |-> reverse,
      pending |-> rev_list(g.tip[rev], reverse),
      state |-> IF g.tip[rev] = 0 THEN "unresolved" ELSE "iter" ]

FallbackFrameChained(g, frame) ==
    Frame(g, Get(frame.fallback_rev), frame.fallback_rev, frame.reverse)

\* Line 88: yield from repo_commits_iter(repo, fallback_rev).
FallbackFrame(g, frame) == Frame(g, Get(frame.fallback_rev), None, TRUE)

\* ------------------------------------------------------------- ingest_and_store_repo
SortedDescending(s) ==
    LET ins(acc, x) ==
            LET n == Cardinality({i \in DOMAIN acc : acc[i].authored_date >= x.authored_date})
            IN  SubSeq(acc, 1, n) \o <<x>> \o SubSeq(acc, n + 1, Len(acc))
        RECURSIVE go(_, _)
        go(acc, rest) == IF rest = <<>> THEN acc ELSE go(ins(acc, Head(rest)), Tail(rest))
    IN  go(<<>>, s)

\* sorted(commits, key=lambda c: c["authored_date"]): a stable ascending sort.
sorted_by_authored_date(s) ==
    LET ins(acc, x) ==
            LET n == Cardinality({i \in DOMAIN acc : acc[i].authored_date <= x.authored_date})
            IN  SubSeq(acc, 1, n) \o <<x>> \o SubSeq(acc, n + 1, Len(acc))
        RECURSIVE go(_, _)
        go(acc, rest) == IF rest = <<>> THEN acc ELSE go(ins(acc, Head(rest)), Tail(rest))
    IN  go(<<>>, s)

\* del commit["diffs"]
without_diffs(c) == [f \in (DOMAIN c) \ {"diffs"} |-> c[f]]

repo_count_unchecked(rs) == TRUE

\* assert len(repos) < 2
repo_count_ok(rs) == Len(rs) < 2

TmpDirLeakedOnRaise(how) == IF how = "raise" THEN "exists" ELSE "deleted"

\* Leaving `with tempfile.TemporaryDirectory()` by return or by exception.
TmpDirAfterExit(how) == "deleted"

\* The k-th store_fn call of lines 288-290.
store_call(k) ==
    IF k = 1 THEN [type |-> GIT_REPO_TYPE, id |-> repos[1].tm_id, items |-> repos]
    ELSE IF k = 2 THEN [type |-> GIT_COMMIT_TYPE, id |-> repos[1].tm_id, items |-> commits]
    ELSE [type |-> GIT_COMMIT_DIFF_TYPE, id |-> repos[1].tm_id, items |-> commit_diffs]

\* ------------------------------------------------------------- initial states
Revs == {"master", "main"}
Origins == {None} \cup {Some(u) : u \in OriginUrls}

\* A history in which every commit rewrites the one file, checked out at its tip.
HistoryTree == [c \in Commits |-> [p \in PathSet |-> Some(((c - 1) % MaxSize) + 1)]]

ArgSet(reverses, stubs) ==
    [ customer_id : {"", "c1"}, source_id : {"s1"}, repo_path_is_url : BOOLEAN,
      branch : {"master"}, fallback_branch : {None, Some("main")},
      forced_repo_name : {None, Some(<<"x">>), Some(<<"r1">>)},
      reverse : reverses, stubbed : stubs ]

GitSet(dates, trees, indexes) ==
    [ origin : Origins, tip : [Revs -> 0..MaxCommits], authored_date : dates,
      tree : trees, index : indexes ]

\* A clone has its clone URL as remote origin; the fallback revision only matters
\* when one is given; a stubbed extractor reads no repository.
WellFormed(a, g) ==
    /\ a.repo_path_is_url => g.origin # None
    /\ a.fallback_branch = None => g.tip["main"] = 0
    /\ a.stubbed =>
          /\ ~a.repo_path_is_url /\ a.fallback_branch = None /\ a.forced_repo_name = None
          /\ g.origin = None /\ g.tip["master"] = 0
          /\ \A c \in Commits : g.authored_date[c] = 1

AnyDiff ==
    [ a_path : PathSet, b_path : PathSet,
      a_blob : {None} \cup {Some(b) : b \in Blobs},
      b_blob : {None} \cup {Some(b) : b \in Blobs},
      new_file : BOOLEAN, deleted_file : BOOLEAN, renamed : BOOLEAN ]
NoDiff ==
    [ a_path |-> Paths[1], b_path |-> Paths[1], a_blob |-> None, b_blob |-> None,
      new_file |-> FALSE, deleted_file |-> FALSE, renamed |-> FALSE ]

InitRun ==
    /\ pc = "start" /\ error = "" /\ gen = "none" /\ tmpdir = "none"
    /\ ctx = [repo_name |-> <<>>, repo_tm_id |-> <<>>]
    /\ walk = IdleFrame /\ tried = <<>> /\ walked = <<>> /\ failures = {}
    /\ stream = <<>>
    /\ commits = <<>> /\ repos = <<>> /\ commit_diffs = <<>> /\ sinkCalls = <<>>

InitState == InitRun /\ diff = NoDiff /\ classified = None

InitWith(argset, gitset) ==
    /\ args \in argset
    /\ git \in gitset
    /\ WellFormed(args, git)
    /\ InitState

\* ingest_and_store_repo on any repository of the fixed file history.
Init ==
    InitWith(ArgSet({TRUE}, {FALSE}),
             GitSet([Commits -> Dates], {HistoryTree}, {HistoryTree[MaxCommits]}))

\* The same, with repo_commits_iter's `reverse` argument free.
InitWalker ==
    InitWith(ArgSet(BOOLEAN, {FALSE}),
             GitSet([Commits -> Dates], {HistoryTree}, {HistoryTree[MaxCommits]}))

\* The same, with the extractor possibly replaced by an arbitrary record stream.
InitPipeline ==
    InitWith(ArgSet({TRUE}, BOOLEAN),
             GitSet([Commits -> Dates], {HistoryTree}, {HistoryTree[MaxCommits]}))

\* ingest_and_store_repo on repositories with any trees and any index.
InitDiffs ==
    InitWith(ArgSet({TRUE}, {FALSE}),
             GitSet({[c \in Commits |-> 1]}, [Commits -> Trees], Trees))

\* The classifier alone, on any combination of blobs and flags.
InitClassify ==
    /\ args \in ArgSet({TRUE}, {FALSE}) /\ args.customer_id = "c1"
    /\ ~args.repo_path_is_url /\ args.fallback_branch = None /\ args.forced_repo_name = None
    /\ git \in GitSet({[c \in Commits |-> 1]}, {HistoryTree}, {HistoryTree[MaxCommits]})
    /\ git.origin = None /\ \A r \in Revs : git.tip[r] = 0
    /\ InitRun
    /\ diff \in AnyDiff /\ diff.a_path = diff.b_path
    /\ classified = None

\* ------------------------------------------------------------- actions
\* The generator __call__ ends by exception e: the with-block is left, the
\* exception reaches the for-loop of ingest_and_store_repo and ends the run.
GenRaises(e, f) ==
    /\ gen' = "raised"
    /\ tmpdir' = TmpDirAfterExit("raise")
    /\ pc' = "aborted"
    /\ error' = e
    /\ failures' = failures \cup f

\* Lines 260-269: construct the extractor.
Construct ==
    /\ pc = "start"
    /\ IF init_raises(args)
       THEN pc' = "aborted" /\ error' = "ValueError" /\ UNCHANGED gen
       ELSE pc' = "collect" /\ error' = error
            /\ gen' = IF args.stubbed THEN "stub" ELSE "unstarted"
    /\ UNCHANGED << stream, args, git, tmpdir, ctx, walk, tried, walked, failures,
                    commits, repos, commit_diffs, sinkCalls, diff, classified >>

\* Lines 214-232: first resumption of __call__, up to the walker's iter_commits.
Open ==
    /\ pc = "collect" /\ gen = "unstarted"
    /\ \E cloned \in (IF args.repo_path_is_url THEN BOOLEAN ELSE {TRUE}) :
         LET self == Extractor(args)
             repo_name == IF TruthySeq(self.forced_repo_name)
                          THEN self.forced_repo_name
                          ELSE get_repo_name_from_remote(git)
             repo_tm_id == IF ~TruthySeq(self.repo_tm_id) /\ self.autogenerate_repo_id
                           THEN generate_repo_id_from_remote_name(self, git)
                           ELSE Get(self.repo_tm_id)
         IN  IF ~cloned
             THEN GenRaises("GitCommandError", {"clone"}) /\ UNCHANGED << ctx, walk, tried >>
             ELSE IF ~TruthySeq(repo_name)
             THEN GenRaises("ValueError", {}) /\ UNCHANGED << ctx, walk, tried >>
             ELSE /\ tmpdir' = "exists"
                  /\ gen' = "walking"
                  /\ ctx' = [repo_name |-> Get(repo_name), repo_tm_id |-> repo_tm_id]
                  /\ walk' = Frame(git, args.branch, args.fallback_branch, args.reverse)
                  /\ tried' = <<args.branch>>
                  /\ UNCHANGED << pc, error, failures >>
    /\ UNCHANGED << stream, args, git, walked, commits, repos, commit_diffs, sinkCalls,
                    diff, classified >>

Walking == pc = "collect" /\ gen = "walking"
HasNext == Walking /\ walk.state = "iter" /\ walk.pending # <<>>

\* Lines 82-83, 186-210, 231-234, 270-272: the walker yields a commit, its record
\* is built and yielded, and the pipeline appends it.
ExtractCommit ==
    /\ HasNext
    /\ LET c == Head(walk.pending)
           self == Extractor(args)
           loaded == load_commit_diffs(self, git, ctx.repo_tm_id, c)
       IN  /\ walked' = Append(walked, c)
           /\ walk' = [walk EXCEPT !.pending = Tail(walk.pending)]
           /\ IF loaded.raised
              THEN GenRaises(loaded.exc, {}) /\ UNCHANGED << commits, stream >>
              ELSE /\ commits' = Append(commits,
                          commit_record(self, git, ctx.repo_tm_id, c, loaded.value))
                   /\ stream' = Append(stream, GIT_COMMIT_TYPE)
                   /\ UNCHANGED << pc, error, gen, tmpdir, failures >>
    /\ UNCHANGED << args, git, ctx, tried, repos, commit_diffs, sinkCalls, diff, classified >>

\* Lines 152, 161: commit.diff / commit.stats fail to read the repository.
LoadDiffsFail ==
    /\ HasNext
    /\ walked' = Append(walked, Head(walk.pending))
    /\ walk' = [walk EXCEPT !.pending = Tail(walk.pending)]
    /\ GenRaises("GitCommandError", {"diffs"})
    /\ UNCHANGED << stream, args, git, ctx, tried, commits, repos, commit_diffs, sinkCalls,
                    diff, classified >>

\* Lines 84-93: the handler of git.GitCommandError in repo_commits_iter.
HandleGitCommandError ==
    IF TruthyStr(walk.fallback_rev)
    THEN /\ walk' = FallbackFrame(git, walk)
         /\ tried' = Append(tried, Get(walk.fallback_rev))
    ELSE /\ walk' = [walk EXCEPT !.state = "done", !.pending = <<>>]
         /\ UNCHANGED tried

\* iter_commits raises GitCommandError because the revision is unknown.
RevNotFound ==
    /\ Walking /\ walk.state = "unresolved"
    /\ HandleGitCommandError
    /\ UNCHANGED << stream, args, git, pc, error, gen, tmpdir, ctx, walked, failures,
                    commits, repos, commit_diffs, sinkCalls, diff, classified >>

\* iter_commits raises GitCommandError because reading the repository failed,
\* after the commits listed so far.
ReadFail ==
    /\ HasNext
    /\ failures' = failures \cup {"read"}
    /\ HandleGitCommandError
    /\ UNCHANGED << stream, args, git, pc, error, gen, tmpdir, ctx, walked,
                    commits, repos, commit_diffs, sinkCalls, diff, classified >>

\* Lines 236-248, 273-274: the walker is exhausted; the repo record is yielded
\* and appended.
EmitRepo ==
    /\ Walking
    /\ walk.state = "done" \/ (walk.state = "iter" /\ walk.pending = <<>>)
    /\ repos' = Append(repos, repo_record(Extractor(args), git, ctx.repo_tm_id, ctx.repo_name))
    /\ stream' = Append(stream, GIT_REPO_TYPE)
    /\ gen' = "yielded_repo"
    /\ walk' = [walk EXCEPT !.state = "done"]
    /\ UNCHANGED << args, git, pc, error, tmpdir, ctx, tried, walked, failures,
                    commits, commit_diffs, sinkCalls, diff, classified >>

\* Lines 278-286: the record stream has ended.
AfterCollect ==
    IF ~repo_count_ok(repos)
    THEN pc' = "aborted" /\ error' = "AssertionError" /\ UNCHANGED << commits, commit_diffs >>
    ELSE IF repos = <<>>
    THEN pc' = "aborted" /\ error' = "IndexError" /\ UNCHANGED << commits, commit_diffs >>
    ELSE LET sorted == sorted_by_authored_date(commits)
         IN  /\ commit_diffs' = Concat([i \in DOMAIN sorted |-> sorted[i].diffs])
             /\ commits' = [i \in DOMAIN sorted |-> without_diffs(sorted[i])]
             /\ pc' = "store" /\ error' = error

\* The generator is resumed after the repo record: it leaves the with-block and
\* returns; the pipeline goes on after its loop.
Finish ==
    /\ pc = "collect" /\ gen = "yielded_repo"
    /\ gen' = "returned"
    /\ tmpdir' = TmpDirAfterExit("return")
    /\ AfterCollect
    /\ UNCHANGED << stream, args, git, ctx, walk, tried, walked, failures, repos, sinkCalls,
                    diff, classified >>

\* Lines 288-290: the next store_fn call returns.
StoreOk ==
    /\ pc = "store"
    /\ sinkCalls' = Append(sinkCalls, store_call(Len(sinkCalls) + 1))
    /\ pc' = IF Len(sinkCalls) = 2 THEN "done" ELSE "store"
    /\ UNCHANGED << stream, args, git, error, gen, tmpdir, ctx, walk, tried, walked, failures,
                    commits, repos, commit_diffs, diff, classified >>

\* Lines 288-290: the next store_fn call raises.
StoreFail ==
    /\ pc = "store"
    /\ pc' = "aborted" /\ error' = "SinkError"
    /\ failures' = failures \cup {"store"}
    /\ UNCHANGED << stream, args, git, gen, tmpdir, ctx, walk, tried, walked,
                    commits, repos, commit_diffs, sinkCalls, diff, classified >>

\* Lines 270-276 with a stubbed extractor: one more item of any type arrives.
StubYield ==
    /\ pc = "collect" /\ gen = "stub"
    /\ Len(stream) < MaxStream
    /\ \E type_ \in {GIT_COMMIT_TYPE, GIT_REPO_TYPE, "other"} : \E d \in Dates :
         LET n == Len(stream) + 1
         IN  /\ stream' = Append(stream, type_)
             /\ IF type_ = GIT_COMMIT_TYPE
                THEN /\ commits' = Append(commits,
                           [tm_id |-> tm_id_git_commit(n), hexsha |-> n,
                            authored_date |-> d, diffs |-> <<>>])
                     /\ UNCHANGED << repos, pc, error >>
                ELSE IF type_ = GIT_REPO_TYPE
                THEN /\ repos' = Append(repos,
                           [tm_id |-> tm_id_git_repo(args.customer_id, args.source_id, n),
                            name |-> n])
                     /\ UNCHANGED << commits, pc, error >>
                ELSE /\ pc' = "aborted" /\ error' = "ValueError"
                     /\ UNCHANGED << commits, repos >>
    /\ UNCHANGED << args, git, gen, tmpdir, ctx, walk, tried, walked, failures,
                    commit_diffs, sinkCalls, diff, classified >>

\* The stubbed stream ends.
StubStop ==
    /\ pc = "collect" /\ gen = "stub"
    /\ gen' = "returned"
    /\ AfterCollect
    /\ UNCHANGED << stream, args, git, tmpdir, ctx, walk, tried, walked, failures, repos,
                    sinkCalls, diff, classified >>

\* Lines 178-179: the classifier applied to one Diff.
Classify ==
    /\ classified = None
    /\ classified' =
         Some(IF diff_size(diff).raised
              THEN diff_size(diff)
              ELSE [raised |-> FALSE, size_delta |-> diff_size(diff).value,
                    type |-> diff_type(diff)])
    /\ UNCHANGED << stream, args, git, pc, error, gen, tmpdir, ctx, walk, tried, walked,
                    failures, commits, repos, commit_diffs, sinkCalls, diff >>

Next ==
    \/ Construct \/ Open \/ ExtractCommit \/ LoadDiffsFail \/ RevNotFound \/ ReadFail
    \/ EmitRepo \/ Finish \/ StoreOk \/ StoreFail

NextPipeline == Next \/ StubYield \/ StubStop

NextClassify == Classify

Spec == Init /\ [][Next]_vars
SpecWalker == InitWalker /\ [][Next]_vars
SpecPipeline == InitPipeline /\ [][NextPipeline]_vars
SpecDiffs == InitDiffs /\ [][Next]_vars
SpecClassify == InitClassify /\ [][NextClassify]_vars

\* ------------------------------------------------------------- properties
Terminated == pc \in {"done", "aborted"}
\* The tip the walker's revision range resolves to: the primary revision, else
\* the fallback when one is given; 0 when neither is known.
ResolvedTip ==
    IF git.tip[args.branch] # 0 THEN git.tip[args.branch]
    ELSE IF args.fallback_branch # None THEN git.tip[Get(args.fallback_branch)]
    ELSE 0
WalkerReturned == walk.state = "done"
NonDecreasing(items) ==
    \A i, j \in DOMAIN items : i < j => items[i].authored_date <= items[j].authored_date

\* C1: store_fn is called only after the extractor's stream has ended, and a run
\* ends with all three store_fn calls made or with none made, whatever aborts it
\* (a failure raised while storing included).
C1_AllOrNothing ==
    /\ sinkCalls # <<>> => gen = "returned"
    /\ Terminated => Len(sinkCalls) \in {0, 3}

C4_SingleFallback ==
    /\ Len(tried) <= 2
    /\ Len(tried) = 2 =>
          args.fallback_branch # None /\ tried = <<args.branch, Get(args.fallback_branch)>>
    /\ (WalkerReturned /\ git.tip[args.branch] = 0 /\ "read" \notin failures) =>
          IF args.fallback_branch # None
          THEN /\ tried = <<args.branch, Get(args.fallback_branch)>>
               /\ walked = rev_list(git.tip[Get(args.fallback_branch)], args.reverse)
               /\ git.tip[Get(args.fallback_branch)] = 0 => gen # "raised"
          ELSE tried = <<args.branch>> /\ walked = <<>> /\ gen # "raised"
C4_Witness ==
    /\ WalkerReturned /\ git.tip[args.branch] = 0 /\ "read" \notin failures
    /\ args.fallback_branch # None
    /\ Len(tried) = 2 /\ Len(walked) >= 2

\* C5: the walker yields its commits in the requested order (reverse or not),
\* from the primary revision and from the fallback revision alike.
C5_RequestedOrder ==
    (WalkerReturned /\ "read" \notin failures) =>
        walked = rev_list(ResolvedTip, args.reverse)

\* C6: the temporary directory exists before any revision is walked, and is
\* deleted once the extractor has ended, by return or by exception; it is
\* deleted before the first store_fn call.
C6_TmpDirScoped ==
    /\ tried # <<>> => tmpdir # "none"
    /\ gen \in {"walking", "yielded_repo"} => tmpdir = "exists"
    /\ gen \in {"returned", "raised"} => tmpdir = "deleted"
    /\ sinkCalls # <<>> => tmpdir = "deleted"
C6_Witness ==
    /\ gen = "raised" /\ walked # <<>> /\ tmpdir = "deleted"

\* C7: a clone or read failure of the version-control capability is fatal: it
\* ends the run with that error as soon as it is raised, so a read failure in
\* the walker is followed by no fallback and by no store_fn call.
C7_TransportFatal ==
    (failures \cap {"clone", "read", "diffs"} # {}) =>
        /\ pc = "aborted" /\ error = "GitCommandError"
        /\ gen = "raised"
        /\ sinkCalls = <<>>

\* C8 as claimed: rule 1 gives (-pre_size, D), rule 2 gives (post_size, A),
\* rule 3 gives pre_size - post_size with R, else D, else A, else M.
C8_AsClaimed ==
    (classified # None /\ ~Get(classified).raised) =>
        LET r == Get(classified)
            prec == IF diff.renamed THEN "R" ELSE IF diff.deleted_file THEN "D"
                    ELSE IF diff.new_file THEN "A" ELSE "M"
        IN  IF diff.deleted_file /\ diff.b_blob = None
            THEN r.size_delta = 0 - Get(diff.a_blob) /\ r.type = "D"
            ELSE IF diff.new_file /\ diff.a_blob = None
            THEN r.size_delta = Get(diff.b_blob) /\ r.type = "A"
            ELSE r.size_delta = Get(diff.a_blob) - Get(diff.b_blob) /\ r.type = prec

\* C8 amended: size_delta follows rules 1-3, the classifier raising when a blob
\* the applicable rule reads is absent; change_type is R if renamed, else D if
\* deleted, else A if new, else M, whichever size rule applied.
C8_SizeRulesTypePrecedence ==
    classified # None =>
        LET r == Get(classified)
            rule == IF diff.deleted_file /\ diff.b_blob = None THEN 1
                    ELSE IF diff.new_file /\ diff.a_blob = None THEN 2 ELSE 3
            reads == IF rule = 1 THEN {diff.a_blob}
                     ELSE IF rule = 2 THEN {diff.b_blob} ELSE {diff.a_blob, diff.b_blob}
        IN  IF None \in reads
            THEN r.raised /\ r.exc = "AttributeError"
            ELSE /\ ~r.raised
                 /\ rule = 1 => r.size_delta + Get(diff.a_blob) = 0
                 /\ rule = 2 => r.size_delta = Get(diff.b_blob)
                 /\ rule = 3 => r.size_delta + Get(diff.b_blob) = Get(diff.a_blob)
                 /\ diff.renamed => r.type = "R"
                 /\ (~diff.renamed /\ diff.deleted_file) => r.type = "D"
                 /\ (~diff.renamed /\ ~diff.deleted_file /\ diff.new_file) => r.type = "A"
                 /\ (~diff.renamed /\ ~diff.deleted_file /\ ~diff.new_file) => r.type = "M"
C8_Witness ==
    /\ classified # None /\ ~Get(classified).raised
    /\ diff.deleted_file /\ diff.b_blob = None /\ diff.renamed
    /\ Get(classified).type = "R"

\* C9: a parentless commit is diffed against the empty tree: its record holds one
\* diff per file of its tree, of type A and size_delta the file's size.
C9_RootAgainstEmptyTree ==
    pc = "collect" =>
        \A i \in DOMAIN commits :
            commits[i].parents = <<>> =>
                LET tree == git.tree[commits[i].hexsha]
                    present == SelectSeq(Paths, LAMBDA p : tree[p] # None)
                    ds == commits[i].diffs
                IN  /\ Len(ds) = Len(present)
                    /\ \A k \in DOMAIN ds :
                          /\ ds[k].a_path = present[k]
                          /\ ds[k].type = "A"
                          /\ ds[k].size_delta = Get(tree[present[k]])

\* C10: the auto-generated repository id of the repo record, of every commit
\* record and of every store_fn call is derived from customer id, source id and
\* the resolved repository name, the name the repo record carries.
C10_IdFromResolvedName ==
    repos # <<>> =>
        LET id == tm_id_git_repo(args.customer_id, args.source_id, Some(repos[1].name))
        IN  /\ repos[1].tm_id = id
            /\ \A i \in DOMAIN commits : commits[i].repo_id = id
            /\ \A i \in DOMAIN sinkCalls : sinkCalls[i].id = id

====
